---- MODULE Spec2Model ----
(***************************************************************************)
(* The chess rules engine of rust_chess_workshop: the board (board.rs),    *)
(* the pawn (piece/pawn.rs) and the other five piece kinds, as a state     *)
(* machine over the board's piece map.                                     *)
(*                                                                         *)
(* A square is <<row, col>> with row and col in 0..7 (row 0 is White's     *)
(* back rank), as the (u8, u8) keys of Board::pieces.  A piece is a record *)
(* [name, color, position]; the board is a function from the occupied      *)
(* squares to the pieces on them (HashMap<(u8, u8), Box<dyn Piece>>).      *)
(***************************************************************************)
EXTENDS Integers, FiniteSets, Sequences, TLC

VARIABLES
    pieces,   \* Board::pieces
    last,     \* the last call made on the board, its arguments and its outcome
    hist      \* how many mutating calls were made, and by which colors

vars == <<pieces, last, hist>>

(***************************************************************************)
(* Bounds of the model.                                                    *)
(***************************************************************************)
MaxMoves == 2   \* mutating calls (move_piece, do_move, capture) per run of Spec
MaxPlies == 4   \* moves per run of SpecPlay

(***************************************************************************)
(* Colors, squares and names.                                              *)
(***************************************************************************)
Colors == {"White", "Black"}

opposite(color) == IF color = "White" THEN "Black" ELSE "White"

Rows == 0..7

Squares == Rows \X Rows

PAWN_NAME == "bonde"

BISHOP_NAME == "laupar"

QUEEN_NAME == "dronning"

KING_NAME == "konge"

ROOK_NAME == "taarn"

KNIGHT_NAME == "springar"

\* An Option that holds no square (the None of as_u8, find and get)
None == <<>>

\* Squares::as_board_positions on a set of (i8, i8): the pairs that are squares
\* of the board, the others discarded.
as_board_positions(candidates) ==
    {c \in candidates : c[1] \in Rows /\ c[2] \in Rows}

\* Piece::new
new_piece(name, color, position) ==
    [name |-> name, color |-> color, position |-> position]

(***************************************************************************)
(* The pawn (piece/pawn.rs).                                               *)
(***************************************************************************)
get_pawn_moves(piece) ==
    LET y == piece.position[1]
        x == piece.position[2]
        moves == IF piece.color = "White"
                 THEN IF y = 1 THEN {<<2, x>>, <<3, x>>} ELSE {<<y + 1, x>>}
                 ELSE IF y = 6 THEN {<<5, x>>, <<4, x>>} ELSE {<<y - 1, x>>}
    IN as_board_positions(moves)

\* Mutant of get_pawn_capture_moves: Black captures towards higher rows, as
\* White does
get_pawn_capture_moves_white_only(piece) ==
    LET y == piece.position[1]
        x == piece.position[2]
    IN as_board_positions({<<y + 1, x - 1>>, <<y + 1, x + 1>>})

get_pawn_capture_moves(piece) ==
    LET y == piece.position[1]
        x == piece.position[2]
        capture_moves == IF piece.color = "White"
                         THEN {<<y + 1, x - 1>>, <<y + 1, x + 1>>}
                         ELSE {<<y - 1, x - 1>>, <<y - 1, x + 1>>}
    IN as_board_positions(capture_moves)

\* Mutant of pawn_get_moves: a forward square is dropped only when the pawn's
\* own team stands on it
pawn_get_moves_forward_capture(piece, team, rival_team) ==
    LET moves == get_pawn_moves(piece) \ team
        capture_moves == get_pawn_capture_moves(piece) \cap rival_team
    IN moves \cup capture_moves

\* Mutant of pawn_get_moves: a piece on the square ahead stops the pawn
pawn_get_moves_blocked_hop(piece, team, rival_team) ==
    LET all_pieces == team \cup rival_team
        ahead == <<piece.position[1] + (IF piece.color = "White" THEN 1 ELSE -1),
                   piece.position[2]>>
        moves == IF ahead \in all_pieces THEN {}
                 ELSE get_pawn_moves(piece) \ all_pieces
        capture_moves == get_pawn_capture_moves(piece) \cap rival_team
    IN moves \cup capture_moves

\* Mutant of pawn_get_moves: the capture squares are not intersected with the
\* rival team
pawn_get_moves_any_diagonal(piece, team, rival_team) ==
    LET all_pieces == team \cup rival_team
        moves == get_pawn_moves(piece) \ all_pieces
        capture_moves == get_pawn_capture_moves(piece) \ team
    IN moves \cup capture_moves

pawn_get_moves(piece, team, rival_team) ==
    LET all_pieces == team \cup rival_team
        moves == get_pawn_moves(piece) \ all_pieces
        capture_moves == get_pawn_capture_moves(piece) \cap rival_team
    IN moves \cup capture_moves

(***************************************************************************)
(* The officers.  Their get_moves follow the movement rules of the         *)
(* specification: rays truncated by the first occupied square, jumps       *)
(* filtered by the mover's own team.                                       *)
(***************************************************************************)
RECURSIVE ray(_, _, _, _, _)
ray(from, dy, dx, team, rival_team) ==
    LET next == <<from[1] + dy, from[2] + dx>>
    IN IF next \notin Squares \/ next \in team THEN {}
       ELSE IF next \in rival_team THEN {next}
       ELSE {next} \cup ray(next, dy, dx, team, rival_team)

Orthogonals == {<<1, 0>>, <<-1, 0>>, <<0, 1>>, <<0, -1>>}

Diagonals == {<<1, 1>>, <<1, -1>>, <<-1, 1>>, <<-1, -1>>}

KnightJumps ==
    {<<1, 2>>, <<2, 1>>, <<-1, 2>>, <<-2, 1>>,
     <<1, -2>>, <<2, -1>>, <<-1, -2>>, <<-2, -1>>}

rook_get_moves(piece, team, rival_team) ==
    UNION {ray(piece.position, d[1], d[2], team, rival_team) : d \in Orthogonals}

bishop_get_moves(piece, team, rival_team) ==
    UNION {ray(piece.position, d[1], d[2], team, rival_team) : d \in Diagonals}

queen_get_moves(piece, team, rival_team) ==
    rook_get_moves(piece, team, rival_team)
        \cup bishop_get_moves(piece, team, rival_team)

knight_get_moves(piece, team, rival_team) ==
    as_board_positions({<<piece.position[1] + d[1], piece.position[2] + d[2]>> :
                            d \in KnightJumps}) \ team

king_get_moves(piece, team, rival_team) ==
    as_board_positions({<<piece.position[1] + d[1], piece.position[2] + d[2]>> :
                            d \in Orthogonals \cup Diagonals}) \ team

\* Piece::get_moves, dispatched on the kind of the piece
get_moves(piece, team, rival_team) ==
    CASE piece.name = PAWN_NAME -> pawn_get_moves(piece, team, rival_team)
      [] piece.name = ROOK_NAME -> rook_get_moves(piece, team, rival_team)
      [] piece.name = KNIGHT_NAME -> knight_get_moves(piece, team, rival_team)
      [] piece.name = BISHOP_NAME -> bishop_get_moves(piece, team, rival_team)
      [] piece.name = QUEEN_NAME -> queen_get_moves(piece, team, rival_team)
      [] piece.name = KING_NAME -> king_get_moves(piece, team, rival_team)

\* Mutant of piece_move_piece: the recorded position is left as it was
piece_move_piece_keeps_position(piece, target) ==
    piece

\* Piece::move_piece: the piece's recorded position is overwritten
piece_move_piece(piece, target) ==
    [piece EXCEPT !.position = target]

(***************************************************************************)
(* The board (board.rs).                                                   *)
(***************************************************************************)
\* The pieces Board::new pushes for one team
team_pieces(color, officer_row, pawn_row) ==
    {new_piece(PAWN_NAME, color, <<pawn_row, col>>) : col \in 0..7}
        \cup {new_piece(ROOK_NAME, color, <<officer_row, 0>>),
              new_piece(KNIGHT_NAME, color, <<officer_row, 1>>),
              new_piece(BISHOP_NAME, color, <<officer_row, 2>>),
              new_piece(QUEEN_NAME, color, <<officer_row, 3>>),
              new_piece(KING_NAME, color, <<officer_row, 4>>),
              new_piece(BISHOP_NAME, color, <<officer_row, 5>>),
              new_piece(KNIGHT_NAME, color, <<officer_row, 6>>),
              new_piece(ROOK_NAME, color, <<officer_row, 7>>)}

\* Board::new: every piece keyed by its own position
board_new ==
    LET all == team_pieces("White", 0, 1) \cup team_pieces("Black", 7, 6)
    IN [position \in {piece.position : piece \in all} |->
            CHOOSE piece \in all : piece.position = position]

get_positions(board, color) ==
    {position \in DOMAIN board : board[position].color = color}

get_pieces_iter(board, color) ==
    {board[position] : position \in get_positions(board, color)}

\* Mutant of move_piece: the target square is cleared before the origin is
\* unwrapped
move_piece_target_first(board, position, target_square) ==
    IF position \notin DOMAIN board
    THEN [board |-> [key \in DOMAIN board \ {target_square} |-> board[key]],
          panicked |-> TRUE]
    ELSE LET moving_piece == piece_move_piece(board[position], target_square)
             kept == (DOMAIN board \ {position}) \ {target_square}
         IN [board |-> [key \in kept \cup {target_square} |->
                            IF key = target_square THEN moving_piece
                            ELSE board[key]],
             panicked |-> FALSE]

\* Board::move_piece.  The unwrap of the removed origin comes first: with no
\* piece on `position` the call panics and the map is as it was.
move_piece(board, position, target_square) ==
    IF position \notin DOMAIN board
    THEN [board |-> board, panicked |-> TRUE]
    ELSE LET moving_piece == piece_move_piece(board[position], target_square)
             kept == (DOMAIN board \ {position}) \ {target_square}
         IN [board |-> [key \in kept \cup {target_square} |->
                            IF key = target_square THEN moving_piece
                            ELSE board[key]],
             panicked |-> FALSE]

\* Board::get_king_position before its unwrap: None where the find yields nothing
find_king_position(board, color) ==
    LET kings == {piece \in get_pieces_iter(board, color) : piece.name = KING_NAME}
    IN IF kings = {} THEN None
       ELSE (CHOOSE piece \in kings : TRUE).position

\* Board::is_check
is_check(board, color) ==
    LET king_position == find_king_position(board, color)
        team == get_positions(board, color)
        rival_team == get_positions(board, opposite(color))
    IN IF king_position = None
       THEN [value |-> FALSE, panicked |-> TRUE]
       ELSE [value |-> \E piece \in get_pieces_iter(board, opposite(color)) :
                           king_position \in get_moves(piece, rival_team, team),
             panicked |-> FALSE]

\* Board::get_piece_name before its unwrap: None on an empty square
get_piece_name(board, position) ==
    IF position \in DOMAIN board THEN <<board[position].name>> ELSE None

\* Board::get_square_color: None on an empty square
get_square_color(board, position) ==
    IF position \in DOMAIN board THEN <<board[position].color>> ELSE None

\* Mutant of filter_squares: the candidates are played on `self`, not on a clone
RECURSIVE filter_squares_in_place(_, _, _, _)
filter_squares_in_place(self, piece, color, moves) ==
    IF moves = {}
    THEN [self |-> self, squares |-> {}, panicked |-> FALSE]
    ELSE LET square == CHOOSE s \in moves : TRUE
             moved == move_piece(self, piece.position, square)
             check == is_check(moved.board, color)
         IN IF moved.panicked \/ check.panicked
            THEN [self |-> moved.board, squares |-> {}, panicked |-> TRUE]
            ELSE LET rest == filter_squares_in_place(moved.board, piece, color,
                                                     moves \ {square})
                 IN [self |-> rest.self,
                     squares |-> IF rest.panicked THEN {}
                                 ELSE (IF check.value THEN {} ELSE {square})
                                          \cup rest.squares,
                     panicked |-> rest.panicked]

\* The filter of Board::get_legal_squares over the candidate squares, one at a
\* time: each is played on a clone of `self` and kept when the clone is not in
\* check.  `self` is handed on as it is; a panic in the closure ends the call.
RECURSIVE filter_squares(_, _, _, _)
filter_squares(self, piece, color, moves) ==
    IF moves = {}
    THEN [self |-> self, squares |-> {}, panicked |-> FALSE]
    ELSE LET square == CHOOSE s \in moves : TRUE
             new_board == self
             moved == move_piece(new_board, piece.position, square)
             check == is_check(moved.board, color)
         IN IF moved.panicked \/ check.panicked
            THEN [self |-> self, squares |-> {}, panicked |-> TRUE]
            ELSE LET rest == filter_squares(self, piece, color, moves \ {square})
                 IN [self |-> rest.self,
                     squares |-> IF rest.panicked THEN {}
                                 ELSE (IF check.value THEN {} ELSE {square})
                                          \cup rest.squares,
                     panicked |-> rest.panicked]

\* Mutant of get_legal_squares: the pseudo-legal squares, unfiltered
get_legal_squares_unfiltered(board, position) ==
    IF get_square_color(board, position) = None
    THEN [self |-> board, squares |-> {}, panicked |-> TRUE]
    ELSE [self |-> board,
          squares |-> get_moves(board[position],
                                get_positions(board, board[position].color),
                                get_positions(board, opposite(board[position].color))),
          panicked |-> FALSE]

\* Board::get_legal_squares
get_legal_squares(board, position) ==
    IF get_square_color(board, position) = None
    THEN [self |-> board, squares |-> {}, panicked |-> TRUE]
    ELSE LET color == board[position].color
             team == get_positions(board, color)
             rival_team == get_positions(board, opposite(color))
             piece == board[position]
             moves == get_moves(piece, team, rival_team)
         IN filter_squares(board, piece, color, moves)

(***************************************************************************)
(* Notation (square.rs): "e2" is <<"e", "2">> here, a sequence of its      *)
(* characters.                                                             *)
(***************************************************************************)
LowerFiles == <<"a", "b", "c", "d", "e", "f", "g", "h">>

UpperFiles == <<"A", "B", "C", "D", "E", "F", "G", "H">>

RankDigits == <<"1", "2", "3", "4", "5", "6", "7", "8">>

\* Square::as_u8 on a string: the square it names, None when it names none
as_u8(text) ==
    IF Len(text) = 2
          /\ \E i \in 1..8 : (text[1] = LowerFiles[i] \/ text[1] = UpperFiles[i])
          /\ \E j \in 1..8 : text[2] = RankDigits[j]
    THEN <<(CHOOSE j \in 1..8 : text[2] = RankDigits[j]) - 1,
           (CHOOSE i \in 1..8 : (text[1] = LowerFiles[i] \/ text[1] = UpperFiles[i])) - 1>>
    ELSE None

\* Square::as_string on a square
as_string(position) ==
    <<LowerFiles[position[2] + 1], RankDigits[position[1] + 1]>>

\* Mutant of capture: origin and target are handed to move_piece the wrong
\* way round
capture_swapped(board, position, target_square) ==
    IF get_piece_name(board, position) = None
          \/ get_piece_name(board, target_square) = None
    THEN [board |-> board, panicked |-> TRUE, printed |-> <<>>]
    ELSE LET moved == move_piece(board, target_square, position)
         IN [board |-> moved.board, panicked |-> moved.panicked,
             printed |-> <<get_piece_name(board, position)[1], as_string(position),
                           get_piece_name(board, target_square)[1],
                           as_string(target_square)>>]

\* Board::capture: the announcement is built first (both names unwrapped),
\* then the piece is moved
capture(board, position, target_square) ==
    IF get_piece_name(board, position) = None
          \/ get_piece_name(board, target_square) = None
    THEN [board |-> board, panicked |-> TRUE, printed |-> <<>>]
    ELSE LET moved == move_piece(board, position, target_square)
         IN [board |-> moved.board, panicked |-> moved.panicked,
             printed |-> <<get_piece_name(board, position)[1], as_string(position),
                           get_piece_name(board, target_square)[1],
                           as_string(target_square)>>]

\* Board::do_move
do_move(board, position, target) ==
    IF as_u8(position) = None \/ as_u8(target) = None
    THEN [board |-> board, panicked |-> TRUE]
    ELSE move_piece(board, as_u8(position), as_u8(target))

(***************************************************************************)
(* The calls on a board, as actions.  The program is single-threaded and   *)
(* synchronous: a call is made when no call is under way, runs to its end  *)
(* (or to its panic) in one step and leaves its arguments and outcome in   *)
(* `last`; Return hands control back to the caller, which drops them.      *)
(***************************************************************************)
call(op, position, target, color, squares, value, printed, panicked) ==
    [op |-> op, position |-> position, target |-> target, color |-> color,
     squares |-> squares, value |-> value, printed |-> printed,
     panicked |-> panicked]

NoCall == call("none", None, None, "none", {}, FALSE, <<>>, FALSE)

\* Squares and notations the calls are made with: the squares of the
\* repository's board tests (f7-f5, d1-h5, g7-g6, a1-d4), the kings' squares,
\* and e4, which is empty on the starting board.
A1 == <<0, 0>>
D1 == <<0, 3>>
E1 == <<0, 4>>
D2 == <<1, 3>>
E2 == <<1, 4>>
D4 == <<3, 3>>
E4 == <<3, 4>>
F5 == <<4, 5>>
H5 == <<4, 7>>
F6 == <<5, 5>>
G6 == <<5, 6>>
F7 == <<6, 5>>
G7 == <<6, 6>>
E8 == <<7, 4>>

MoveOrigins == {F7, D1, G7, H5, E4}

MoveTargets == {F5, H5, G6, E8, D1}

DoMoveTexts == {<<"a", "1">>, <<"D", "4">>, <<"d", "4">>, <<"e", "1">>, <<"i", "9">>}

CaptureOrigins == {D1, H5, E4}

CaptureTargets == {H5, G7, E8, E4}

MovePiece(position, target) ==
    /\ last = NoCall
    /\ hist.n < MaxMoves
    /\ LET r == move_piece(pieces, position, target)
       IN /\ pieces' = r.board
          /\ last' = call("move_piece", position, target, "none", {}, FALSE, <<>>, r.panicked)
    /\ hist' = [hist EXCEPT !.n = @ + 1]

DoMove(position, target) ==
    /\ last = NoCall
    /\ hist.n < MaxMoves
    /\ LET r == do_move(pieces, position, target)
       IN /\ pieces' = r.board
          /\ last' = call("do_move", as_u8(position), as_u8(target), "none", {}, FALSE,
                          <<>>, r.panicked)
    /\ hist' = [hist EXCEPT !.n = @ + 1]

Capture(position, target) ==
    /\ last = NoCall
    /\ hist.n < MaxMoves
    /\ LET r == capture(pieces, position, target)
       IN /\ pieces' = r.board
          /\ last' = call("capture", position, target, "none", {}, FALSE, r.printed,
                          r.panicked)
    /\ hist' = [hist EXCEPT !.n = @ + 1]

GetLegalSquares(position) ==
    /\ last = NoCall
    /\ LET r == get_legal_squares(pieces, position)
       IN /\ pieces' = r.self
          /\ last' = call("get_legal_squares", position, None, "none", r.squares,
                          FALSE, <<>>, r.panicked)
    /\ UNCHANGED hist

IsCheck(color) ==
    /\ last = NoCall
    /\ LET r == is_check(pieces, color)
       IN last' = call("is_check", None, None, color, {}, r.value, <<>>, r.panicked)
    /\ UNCHANGED <<pieces, hist>>

Return ==
    /\ last # NoCall
    /\ last' = NoCall
    /\ UNCHANGED <<pieces, hist>>

Init ==
    /\ pieces = board_new
    /\ last = NoCall
    /\ hist = [n |-> 0, mover |-> "none", alternated |-> TRUE]

Next ==
    \/ \E position \in MoveOrigins, target \in MoveTargets : MovePiece(position, target)
    \/ \E position \in DoMoveTexts, target \in DoMoveTexts : DoMove(position, target)
    \/ \E position \in CaptureOrigins, target \in CaptureTargets :
           Capture(position, target)
    \/ \E position \in Squares : GetLegalSquares(position)
    \/ \E color \in Colors : IsCheck(color)
    \/ Return

Spec == Init /\ [][Next]_vars

(***************************************************************************)
(* Properties of the board under Spec.                                     *)
(***************************************************************************)
\* The king of `color` on `board` stands on a square that some piece of the
\* other color can move to, by that piece's own get_moves.
Attacked(board, color) ==
    \E king \in DOMAIN board, rival \in DOMAIN board :
        /\ board[king].color = color /\ board[king].name = KING_NAME
        /\ board[rival].color # color
        /\ king \in get_moves(board[rival],
                              {q \in DOMAIN board : board[q].color # color},
                              {q \in DOMAIN board : board[q].color = color})

\* The pseudo-legal squares of the piece on `position`
PseudoLegal(board, position) ==
    get_moves(board[position],
              get_positions(board, board[position].color),
              get_positions(board, opposite(board[position].color)))

Mutators == {"move_piece", "do_move", "capture"}

\* C1: a call get_legal_squares(p) that returns, on any board and any occupied
\* square p, returns exactly the pseudo-legal squares of the piece on p after
\* which, played with move_piece on the board, the mover's own king is not
\* attacked by a piece of the other color.
C1_LegalIffKingSafe ==
    (last.op = "get_legal_squares" /\ ~last.panicked) =>
        last.squares =
            {s \in PseudoLegal(pieces, last.position) :
                ~Attacked(move_piece(pieces, last.position, s).board,
                          pieces[last.position].color)}

\* Witness of C1: a query that kept some pseudo-legal squares and dropped others
C1_Witness ==
    /\ last.op = "get_legal_squares"
    /\ ~last.panicked
    /\ last.squares # {}
    /\ last.squares # PseudoLegal(pieces, last.position)

\* C3: after Board::new() and after every completed call, every key of the
\* piece map is the recorded position of the piece under it, and no two pieces
\* record the same position.
C3_KeyIsPosition ==
    /\ \A key \in DOMAIN pieces : pieces[key].position = key
    /\ \A k1 \in DOMAIN pieces, k2 \in DOMAIN pieces :
           k1 # k2 => pieces[k1].position # pieces[k2].position

\* Witness of C3: a piece was moved onto an occupied square
C3_Witness ==
    /\ last.op \in Mutators
    /\ ~last.panicked
    /\ last.position # last.target
    /\ Cardinality(DOMAIN pieces) < 32

\* C4: get_legal_squares leaves the board it is asked about as it was, and
\* judges every candidate on the board as it was before the call, not on a
\* board an earlier candidate has changed.
C4_QueryLeavesBoard ==
    [][last'.op = "get_legal_squares" =>
          /\ pieces' = pieces
          /\ last'.position \in DOMAIN pieces /\ ~last'.panicked =>
                 last'.squares =
                     {s \in PseudoLegal(pieces, last'.position) :
                         ~is_check(move_piece(pieces, last'.position, s).board,
                                   pieces[last'.position].color).value}]_vars

\* Witness of C4: a query that simulated several candidates
C4_Witness ==
    /\ last.op = "get_legal_squares"
    /\ ~last.panicked
    /\ Cardinality(PseudoLegal(pieces, last.position)) >= 3
    /\ Cardinality(last.squares) >= 1

\* C5 as claimed: from every occupied origin and to every target, capture
\* leaves the board move_piece would leave.
C5_CaptureIsMovePiece ==
    [][(last'.op = "capture" /\ last'.position \in DOMAIN pieces) =>
          pieces' = move_piece(pieces, last'.position, last'.target).board]_vars

\* C5 as amended: from every occupied origin and to every occupied target,
\* capture returns and leaves the board move_piece would leave, having
\* announced the two pieces and squares; to an empty target it panics and
\* leaves the board as it was, where move_piece would have moved the piece.
C5_CaptureOfOccupiedIsMovePiece ==
    [][(last'.op = "capture" /\ last'.position \in DOMAIN pieces) =>
          IF last'.target \in DOMAIN pieces
          THEN /\ ~last'.panicked
               /\ pieces' = move_piece(pieces, last'.position, last'.target).board
               /\ last'.printed = <<pieces[last'.position].name,
                                    as_string(last'.position),
                                    pieces[last'.target].name,
                                    as_string(last'.target)>>
          ELSE /\ last'.panicked
               /\ pieces' = pieces
               /\ pieces # move_piece(pieces, last'.position, last'.target).board]_vars

\* Witness of C5: a capture that returned, having taken a piece
C5_Witness ==
    /\ last.op = "capture"
    /\ ~last.panicked
    /\ last.position # last.target
    /\ Cardinality(DOMAIN pieces) < 32

\* C6: move_piece and do_move from an unoccupied origin panic and leave the
\* board as it was, the piece on the target included; get_legal_squares on an
\* unoccupied square panics; is_check for a color without a king panics.
C6_PreconditionsPanic ==
    [][/\ (last'.op \in {"move_piece", "do_move"}
              /\ last'.position \notin DOMAIN pieces) =>
             (last'.panicked /\ pieces' = pieces)
       /\ (last'.op = "get_legal_squares" /\ last'.position \notin DOMAIN pieces) =>
             last'.panicked
       /\ (last'.op = "is_check"
              /\ ~\E k \in DOMAIN pieces :
                     pieces[k].color = last'.color /\ pieces[k].name = KING_NAME) =>
             last'.panicked]_vars

\* Witness of C6: move_piece from an empty square to an occupied one panicked
C6_Witness ==
    /\ last.op = "move_piece"
    /\ last.panicked
    /\ last.position \notin DOMAIN pieces
    /\ last.target \in DOMAIN pieces

\* C7: on the starting board get_legal_squares of each of the sixteen pawns
\* is the two squares one and two steps ahead on the pawn's file.
C7_PawnOpeningMoves ==
    (last.op = "get_legal_squares" /\ pieces = board_new) =>
        /\ \A col \in 0..7 :
               last.position = <<1, col>> =>
                   (~last.panicked /\ last.squares = {<<2, col>>, <<3, col>>})
        /\ \A col \in 0..7 :
               last.position = <<6, col>> =>
                   (~last.panicked /\ last.squares = {<<5, col>>, <<4, col>>})

\* Witness of C7: the query of e2 on the starting board
C7_Witness ==
    /\ last.op = "get_legal_squares"
    /\ pieces = board_new
    /\ last.position = E2
    /\ last.squares = {<<2, 4>>, E4}

(***************************************************************************)
(* The pawn on its own: SpecPawn starts from a board that holds a pawn of  *)
(* either color on any square and, on each of the squares one and two      *)
(* steps ahead of it and diagonally ahead of it, nothing, a pawn of its    *)
(* own color, a knight of the other color or the king of the other color   *)
(* (one king at most).  Such boards are reached from the starting board    *)
(* by do_move, which moves any piece to any square.                        *)
(***************************************************************************)
forward(color) == IF color = "White" THEN 1 ELSE -1

Ahead(position, color, steps) ==
    <<position[1] + steps * forward(color), position[2]>>

ForwardDiagonals(position, color) ==
    {<<position[1] + forward(color), position[2] - 1>>,
     <<position[1] + forward(color), position[2] + 1>>}

Near(position, color) ==
    ({Ahead(position, color, 1), Ahead(position, color, 2)}
        \cup ForwardDiagonals(position, color)) \cap Squares

Fillers == {"empty", "team", "rival", "king"}

filler_piece(filler, color, position) ==
    CASE filler = "team" -> new_piece(PAWN_NAME, color, position)
      [] filler = "rival" -> new_piece(KNIGHT_NAME, opposite(color), position)
      [] filler = "king" -> new_piece(KING_NAME, opposite(color), position)

pawn_board(position, color, fill) ==
    LET occupied == {sq \in DOMAIN fill : fill[sq] # "empty"}
    IN [sq \in occupied \cup {position} |->
            IF sq = position THEN new_piece(PAWN_NAME, color, position)
            ELSE filler_piece(fill[sq], color, sq)]

InitPawn ==
    /\ \E position \in Squares, color \in Colors :
           \E fill \in [Near(position, color) -> Fillers] :
               /\ Cardinality({sq \in DOMAIN fill : fill[sq] = "king"}) <= 1
               /\ pieces = pawn_board(position, color, fill)
    /\ last = NoCall
    /\ hist = [n |-> 0, mover |-> "none", alternated |-> TRUE]

\* Piece::get_moves of the piece on `position`, with the teams of the board
GetMoves(position) ==
    /\ last = NoCall
    /\ position \in DOMAIN pieces
    /\ last' = call("get_moves", position, None, pieces[position].color,
                    get_moves(pieces[position],
                              get_positions(pieces, pieces[position].color),
                              get_positions(pieces, opposite(pieces[position].color))),
                    FALSE, <<>>, FALSE)
    /\ UNCHANGED <<pieces, hist>>

GetPawnMoves(position) ==
    /\ last = NoCall
    /\ position \in DOMAIN pieces
    /\ pieces[position].name = PAWN_NAME
    /\ last' = call("get_pawn_moves", position, None, pieces[position].color,
                    get_pawn_moves(pieces[position]), FALSE, <<>>, FALSE)
    /\ UNCHANGED <<pieces, hist>>

GetPawnCaptureMoves(position) ==
    /\ last = NoCall
    /\ position \in DOMAIN pieces
    /\ pieces[position].name = PAWN_NAME
    /\ last' = call("get_pawn_capture_moves", position, None, pieces[position].color,
                    get_pawn_capture_moves(pieces[position]), FALSE, <<>>, FALSE)
    /\ UNCHANGED <<pieces, hist>>

NextPawn ==
    \/ \E position \in Squares : GetMoves(position)
    \/ \E position \in Squares : GetPawnMoves(position)
    \/ \E position \in Squares : GetPawnCaptureMoves(position)
    \/ \E color \in Colors : IsCheck(color)
    \/ Return

SpecPawn == InitPawn /\ [][NextPawn]_vars

Pawns(board, color) ==
    {q \in DOMAIN board : board[q].color = color /\ board[q].name = PAWN_NAME}

KingSquares(board, color) ==
    {q \in DOMAIN board : board[q].color = color /\ board[q].name = KING_NAME}

OnlyPawns(board, color) ==
    \A q \in DOMAIN board : board[q].color = color => board[q].name = PAWN_NAME

StartRow(color) == IF color = "White" THEN 1 ELSE 6

LastRow(color) == IF color = "White" THEN 7 ELSE 0

\* C8: where the pieces of the other color are all pawns, is_check(color) is
\* true exactly when color's king stands diagonally ahead of one of them; so a
\* pawn with the king one or two squares straight ahead gives no check.
C8_PawnChecksDiagonallyOnly ==
    (last.op = "is_check" /\ ~last.panicked
        /\ OnlyPawns(pieces, opposite(last.color))) =>
        /\ last.value <=>
               \E q \in Pawns(pieces, opposite(last.color)) :
                   KingSquares(pieces, last.color)
                       \cap ForwardDiagonals(q, opposite(last.color)) # {}
        /\ (/\ \E q \in Pawns(pieces, opposite(last.color)) :
                   KingSquares(pieces, last.color)
                       \cap {Ahead(q, opposite(last.color), 1),
                             Ahead(q, opposite(last.color), 2)} # {}
            /\ Cardinality(Pawns(pieces, opposite(last.color))) = 1) =>
               ~last.value

\* Witness of C8: the king two squares ahead of a pawn on its starting row,
\* the square between them empty, and is_check has answered
C8_Witness ==
    /\ last.op = "is_check"
    /\ ~last.panicked
    /\ ~last.value
    /\ \E q \in Pawns(pieces, opposite(last.color)) :
           /\ q[1] = StartRow(opposite(last.color))
           /\ Ahead(q, opposite(last.color), 1) \notin DOMAIN pieces
           /\ Ahead(q, opposite(last.color), 2) \in KingSquares(pieces, last.color)

\* C9: a pawn's get_moves holds each of its forward squares (two from the
\* starting row, one elsewhere) exactly when that square is empty; so from the
\* starting row, with a piece of either color one square ahead and nothing two
\* squares ahead, it holds the square two ahead and not the square one ahead.
C9_HopIgnoresSquareBetween ==
    (last.op = "get_moves" /\ pieces[last.position].name = PAWN_NAME) =>
        LET one == Ahead(last.position, last.color, 1)
            two == Ahead(last.position, last.color, 2)
        IN /\ one \in Squares => (one \in last.squares <=> one \notin DOMAIN pieces)
           /\ last.position[1] = StartRow(last.color) =>
                  (two \in last.squares <=> two \notin DOMAIN pieces)
           /\ (/\ last.position[1] = StartRow(last.color)
               /\ one \in DOMAIN pieces
               /\ two \notin DOMAIN pieces) =>
                  (two \in last.squares /\ one \notin last.squares)

\* Witness of C9: a pawn on its starting row hopped over a piece of the other
\* color
C9_Witness ==
    /\ last.op = "get_moves"
    /\ pieces[last.position].name = PAWN_NAME
    /\ last.position[1] = StartRow(last.color)
    /\ Ahead(last.position, last.color, 1) \in DOMAIN pieces
    /\ pieces[Ahead(last.position, last.color, 1)].color # last.color
    /\ Ahead(last.position, last.color, 2) \in last.squares

\* What C10 says of Pawn::get_moves: a square diagonally ahead, on the board,
\* is in it exactly when a rival piece stands there, and no square of the
\* pawn's own team is in it.
CapturesOnlyRivals ==
    (last.op = "get_moves" /\ pieces[last.position].name = PAWN_NAME) =>
        /\ \A d \in ForwardDiagonals(last.position, last.color) \cap Squares :
               d \in last.squares <=>
                   (d \in DOMAIN pieces /\ pieces[d].color # last.color)
        /\ last.squares \cap get_positions(pieces, last.color) = {}
        /\ last.squares \subseteq Squares

\* C10 as claimed: CapturesOnlyRivals, and the capture candidates of a pawn are
\* one square for a pawn on file a or h and two squares for any other pawn.
C10_CaptureCandidates ==
    /\ CapturesOnlyRivals
    /\ last.op = "get_pawn_capture_moves" =>
           /\ last.squares \subseteq Squares
           /\ Cardinality(last.squares) =
                  IF last.position[2] \in {0, 7} THEN 1 ELSE 2

\* C10 as amended: CapturesOnlyRivals, and the capture candidates of a pawn
\* that is not on its last row (row 7 for White, row 0 for Black) are one
\* square on file a or h and two squares on any other file; a pawn on its last
\* row has none.
C10_CaptureCandidatesBeforeLastRow ==
    /\ CapturesOnlyRivals
    /\ last.op = "get_pawn_capture_moves" =>
           /\ last.squares \subseteq Squares
           /\ last.squares =
                  ForwardDiagonals(last.position, last.color) \cap Squares
           /\ Cardinality(last.squares) =
                  IF last.position[1] = LastRow(last.color) THEN 0
                  ELSE IF last.position[2] \in {0, 7} THEN 1 ELSE 2

\* Witness of C10: the capture candidates of a pawn on its last row
C10_Witness ==
    /\ last.op = "get_pawn_capture_moves"
    /\ last.position[1] = LastRow(last.color)
    /\ last.squares = {}

(***************************************************************************)
(* Play by the legal squares: SpecPlay starts from the starting board; a   *)
(* piece is moved, with move_piece, only to a square that                  *)
(* get_legal_squares has just returned for it.  The board keeps no turn:   *)
(* `hist` records which color moved last and whether the colors have       *)
(* alternated so far.                                                      *)
(***************************************************************************)
PlaySquares == {E2, D2, F7, G7, D1, H5, E8, E1, G6, F6}

\* hist after the piece on `position` of `board` was moved
moved_by(board, position) ==
    [n |-> hist.n + 1,
     mover |-> board[position].color,
     alternated |-> hist.alternated /\ hist.mover # board[position].color]

PlayLegalSquare(target) ==
    /\ last.op = "get_legal_squares"
    /\ ~last.panicked
    /\ target \in last.squares
    /\ hist.n < MaxPlies
    /\ LET r == move_piece(pieces, last.position, target)
       IN /\ pieces' = r.board
          /\ last' = call("move_piece", last.position, target, "none", {}, FALSE,
                          <<>>, r.panicked)
    /\ hist' = moved_by(pieces, last.position)

NextPlay ==
    \/ \E position \in PlaySquares : GetLegalSquares(position)
    \/ \E target \in Squares : PlayLegalSquare(target)
    \/ Return

SpecPlay == Init /\ [][NextPlay]_vars

OneKingEach ==
    \A color \in Colors : Cardinality(KingSquares(pieces, color)) = 1

\* C2 as claimed: on every board reached by moving pieces only to their legal
\* squares there is one king of each color, and get_legal_squares never
\* returns the square of the other color's king.
C2_KingsSurviveLegalPlay ==
    /\ OneKingEach
    /\ (last.op = "get_legal_squares" /\ last.position \in DOMAIN pieces) =>
           last.squares
               \cap KingSquares(pieces, opposite(pieces[last.position].color)) = {}

\* C2 as amended: on every board reached by moving pieces only to their legal
\* squares, the colors taking turns, there is one king of each color, and
\* get_legal_squares of a piece of the color to move never returns the square
\* of the other color's king.
C2_KingsSurviveAlternatingPlay ==
    hist.alternated =>
        /\ OneKingEach
        /\ (last.op = "get_legal_squares" /\ last.position \in DOMAIN pieces
               /\ pieces[last.position].color # hist.mover) =>
               last.squares
                   \cap KingSquares(pieces, opposite(pieces[last.position].color)) = {}

\* Witness of C2: the colors have alternated, the color to move is in check
\* and asks for the legal squares of a piece that can end the check
C2_Witness ==
    /\ hist.alternated
    /\ hist.n >= 3
    /\ last.op = "get_legal_squares"
    /\ last.position \in DOMAIN pieces
    /\ pieces[last.position].color # hist.mover
    /\ Attacked(pieces, pieces[last.position].color)
    /\ last.squares # {}
====
